---- MODULE Spec2Model ----
(***************************************************************************)
(* Model of script.js (the crash map): the clustering algorithm            *)
(* clusterMarkers, the severity reduction getMostSevereCrash, the colour   *)
(* policy getMarkerColor, and the application state machine around them    *)
(* (loadMarkersFromJSON, the year-checkbox handler, the zoomend handler,   *)
(* addMarker, updateMarkersByYear).                                        *)
(*                                                                         *)
(* Three specifications share the module:                                  *)
(*   SpecCluster  - clusterMarkers run step by step on an arbitrary list   *)
(*   SpecSeverity - getMostSevereCrash / getMarkerColor on a crash list    *)
(*   Spec         - the application (globals markers, markerCount,         *)
(*                  allCrashData, selectedYears and the map's layers)      *)
(***************************************************************************)
EXTENDS Integers, Sequences, FiniteSets, TLC

VARIABLES
    \* ---- clusterMarkers (SpecCluster) ----
    markerList,     \* the argument markerList
    listGiven,      \* FALSE models a null / undefined markerList argument
    clusters,       \* const clusters = []
    processed,      \* const processed = new Set()
    index,          \* position of the outer forEach (1-based)
    returned,       \* TRUE once clusterMarkers has returned `clusters`
    again,          \* TRUE once clusterMarkers has been called a second time
    firstResult,    \* what the first invocation returned
    \* ---- getMostSevereCrash / getMarkerColor (SpecSeverity) ----
    crashes,        \* the argument crashes
    mostSevere,     \* let mostSevere
    pos,            \* position of the forEach (1-based)
    markerColor,    \* getMarkerColor(mostSevere...) once computed, else "none"
    \* ---- application globals (Spec) ----
    markers,        \* let markers = []
    markerCount,    \* let markerCount = 0
    allCrashData,   \* let allCrashData = []
    selectedYears,  \* let selectedYears = [2021, 2022, 2023, 2024]
    yearCheckboxes, \* this.checked of each year box, as its latest change event left it
    failedCalls,    \* failed loadMarkersFromJSON calls that built the display from empty
    layers,         \* the layers currently on the Leaflet map (a sequence used as a bag)
    pending,        \* loadMarkersFromJSON calls awaiting their fetch
    fileFeatures,   \* geojson.features of the static file the server holds
    lastOp,         \* what the last handler did (observation only)
    inFlight,       \* updateMarkersByYear invocations entered and not yet returned
    \* ---- createClusterMarker (SpecIcon) ----
    clusterGiven,   \* the argument cluster
    clusterMarker   \* the marker returned, once created

clusterVars  == <<markerList, listGiven, clusters, processed, index, returned,
                  again, firstResult>>
severityVars == <<crashes, mostSevere, pos, markerColor>>
appVars      == <<markers, markerCount, allCrashData, selectedYears, yearCheckboxes, failedCalls,
                  layers, pending, fileFeatures, lastOp, inFlight>>
iconVars     == <<clusterGiven, clusterMarker>>
vars         == <<markerList, listGiven, clusters, processed, index, returned,
                  again, firstResult,
                  crashes, mostSevere, pos, markerColor,
                  markers, markerCount, allCrashData, selectedYears, yearCheckboxes,
                  failedCalls, layers, pending,
                  fileFeatures, lastOp, inFlight,
                  clusterGiven, clusterMarker>>

(***************************************************************************)
(* Bounds of the model.                                                    *)
(***************************************************************************)
MaxLen == 3          \* longest markerList given to clusterMarkers
MaxCoord == 3        \* largest latitude, in grid units
MaxCrashes == 3      \* longest crash list given to getMostSevereCrash
MaxSev == 2          \* largest fatality / injury count
MaxFeatures == 2     \* longest dataset (geojson.features)
MaxPending == 1      \* loadMarkersFromJSON calls in flight at once
MaxShown == 6        \* longest markers list the fallback may build
MaxApiMarkers == 1   \* markers put in the list through LeafletMapAPI.addMarker
MaxMembers == 101    \* most members of a cluster given to createClusterMarker

(***************************************************************************)
(* JavaScript values.  A value is a number, null/undefined, or a           *)
(* non-numeric non-empty string.                                           *)
(***************************************************************************)
Null == [t |-> "null", v |-> 0]
Str == [t |-> "str", v |-> 0]
Num(n) == [t |-> "num", v |-> n]

\* JavaScript truthiness: null, undefined and 0 are falsy; a non-empty string is truthy.
Truthy(x) == (x.t = "num" /\ x.v # 0) \/ x.t = "str"

\* x || 0
OrZero(x) == IF Truthy(x) THEN x ELSE Num(0)

\* Number(x) || 0 : Number(null) = 0, Number(undefined) = NaN, Number("abc") = NaN
NumberStringAsOne(x) == IF x.t = "num" THEN x.v ELSE IF x.t = "str" THEN 1 ELSE 0

NumberOrZero(x) == IF x.t = "num" THEN x.v ELSE 0

\* sequences over S of length 0..n
SeqsUpTo(S, n) == UNION {[1..k -> S] : k \in 0..n}

(***************************************************************************)
(* getMarkerColor (script.js 441-456)                                      *)
(***************************************************************************)
getMarkerColorInjuriesFirst(fatalities, injuries) ==
    LET fatCount == NumberOrZero(fatalities)
        injCount == NumberOrZero(injuries)
    IN  IF injCount > 0 THEN "orange"
        ELSE IF fatCount > 0 THEN "red"
        ELSE "yellow"

getMarkerColor(fatalities, injuries) ==
    LET fatCount == NumberOrZero(fatalities)
        injCount == NumberOrZero(injuries)
    IN  IF fatCount > 0 THEN "red"
        ELSE IF injCount > 0 THEN "orange"
        ELSE "yellow"

(***************************************************************************)
(* extractYear (script.js 459-470).  A numeric YEAR n prints as two        *)
(* characters exactly when 10 <= n <= 99.  NoYear is the null result.      *)
(***************************************************************************)
NoYear == 0

extractYear(yearValue) ==
    IF ~Truthy(yearValue) THEN NoYear
    ELSE IF yearValue.t # "num" THEN NoYear      \* parseInt("abc") = NaN, falsy like null
    ELSE IF yearValue.v >= 10 /\ yearValue.v <= 99 THEN 2000 + yearValue.v
    ELSE yearValue.v

(***************************************************************************)
(* getMostSevereCrash (script.js 473-489): one iteration of the forEach,   *)
(* and the whole reduction.                                                *)
(***************************************************************************)
SevereStepNoTie(acc, crash) ==
    LET fatalities == NumberOrZero(crash.fatalities)
        injuries   == NumberOrZero(crash.injuries)
    IN  IF fatalities > acc.fatalities
        THEN [fatalities |-> fatalities, injuries |-> injuries]
        ELSE acc

SevereStepPointwise(acc, crash) ==
    LET fatalities == NumberOrZero(crash.fatalities)
        injuries   == NumberOrZero(crash.injuries)
    IN  [fatalities |-> IF fatalities > acc.fatalities THEN fatalities ELSE acc.fatalities,
         injuries   |-> IF injuries > acc.injuries THEN injuries ELSE acc.injuries]

SevereStep(acc, crash) ==
    LET fatalities == NumberOrZero(crash.fatalities)
        injuries   == NumberOrZero(crash.injuries)
    IN  IF fatalities > acc.fatalities
        THEN [fatalities |-> fatalities, injuries |-> injuries]
        ELSE IF fatalities = acc.fatalities /\ injuries > acc.injuries
        THEN [fatalities |-> fatalities, injuries |-> injuries]
        ELSE acc

RECURSIVE SevereFrom(_, _, _)
SevereFrom(list, k, acc) ==
    IF k > Len(list) THEN acc
    ELSE SevereFrom(list, k + 1, SevereStep(acc, list[k]))

getMostSevereCrash(list) ==
    SevereFrom(list, 1, [fatalities |-> 0, injuries |-> 0])

(***************************************************************************)
(* getDistanceInMeters (script.js 492-501).  Coordinates are integers in   *)
(* grid units of GridMeters metres; at this scale the haversine distance   *)
(* is the planar one, kept squared to stay in the integers.                *)
(***************************************************************************)
GridMeters == 50

getDistanceInMetersSq(lat1, lng1, lat2, lng2) ==
    GridMeters * GridMeters *
        ((lat2 - lat1) * (lat2 - lat1) + (lng2 - lng1) * (lng2 - lng1))

(***************************************************************************)
(* clusterMarkers (script.js 523-578).                                     *)
(* A marker is a record with the stored fields _lat, _lng, _fatalities,    *)
(* _injuries and an id standing for the object's identity.  A cluster is   *)
(* { markers: cluster, crashData }.                                        *)
(***************************************************************************)
ClusterDistance == 50    \* distanceMeters = 50

\* { fatalities: marker._fatalities || 0, injuries: marker._injuries || 0 }
CrashDataOf(marker) ==
    [fatalities |-> OrZero(marker._fatalities), injuries |-> OrZero(marker._injuries)]

\* if (!lat1 || !lng1)
NoStoredLatLng(marker) == ~Truthy(marker._lat) \/ ~Truthy(marker._lng)

\* distance <= distanceMeters ; a non-numeric coordinate makes the distance NaN,
\* and NaN <= distanceMeters is false
WithinDistanceStrict(m1, m2, distanceMeters) ==
    /\ m1._lat.t = "num" /\ m1._lng.t = "num"
    /\ m2._lat.t = "num" /\ m2._lng.t = "num"
    /\ getDistanceInMetersSq(m1._lat.v, m1._lng.v, m2._lat.v, m2._lng.v)
          < distanceMeters * distanceMeters

WithinDistance(m1, m2, distanceMeters) ==
    /\ m1._lat.t = "num" /\ m1._lng.t = "num"
    /\ m2._lat.t = "num" /\ m2._lng.t = "num"
    /\ getDistanceInMetersSq(m1._lat.v, m1._lng.v, m2._lat.v, m2._lng.v)
          <= distanceMeters * distanceMeters

\* The body of the inner forEach for one otherIndex (lines 550-569).
\* acc = [cluster, crashData, processed]
ScanVisitNoMark(list, idx, otherIndex, acc, distanceMeters) ==
    IF idx = otherIndex \/ otherIndex \in acc.processed THEN acc
    ELSE IF NoStoredLatLng(list[otherIndex]) THEN acc
    ELSE IF WithinDistance(list[idx], list[otherIndex], distanceMeters)
    THEN [cluster   |-> Append(acc.cluster, list[otherIndex]),
          crashData |-> Append(acc.crashData, CrashDataOf(list[otherIndex])),
          processed |-> acc.processed]
    ELSE acc

ScanVisitChained(list, idx, otherIndex, acc, distanceMeters) ==
    IF idx = otherIndex \/ otherIndex \in acc.processed THEN acc
    ELSE IF NoStoredLatLng(list[otherIndex]) THEN acc
    ELSE IF \E k \in DOMAIN acc.cluster :
                WithinDistance(acc.cluster[k], list[otherIndex], distanceMeters)
    THEN [cluster   |-> Append(acc.cluster, list[otherIndex]),
          crashData |-> Append(acc.crashData, CrashDataOf(list[otherIndex])),
          processed |-> acc.processed \cup {otherIndex}]
    ELSE acc

ScanVisitAnyCandidate(list, idx, otherIndex, acc, distanceMeters) ==
    IF idx = otherIndex \/ otherIndex \in acc.processed THEN acc
    ELSE IF WithinDistance(list[idx], list[otherIndex], distanceMeters)
    THEN [cluster   |-> Append(acc.cluster, list[otherIndex]),
          crashData |-> Append(acc.crashData, CrashDataOf(list[otherIndex])),
          processed |-> acc.processed \cup {otherIndex}]
    ELSE acc

ScanVisitCrashDataOfSeed(list, idx, otherIndex, acc, distanceMeters) ==
    IF idx = otherIndex \/ otherIndex \in acc.processed THEN acc
    ELSE IF NoStoredLatLng(list[otherIndex]) THEN acc
    ELSE IF WithinDistance(list[idx], list[otherIndex], distanceMeters)
    THEN [cluster   |-> Append(acc.cluster, list[otherIndex]),
          crashData |-> Append(acc.crashData, CrashDataOf(list[idx])),
          processed |-> acc.processed \cup {otherIndex}]
    ELSE acc

ScanVisit(list, idx, otherIndex, acc, distanceMeters) ==
    IF idx = otherIndex \/ otherIndex \in acc.processed THEN acc
    ELSE IF NoStoredLatLng(list[otherIndex]) THEN acc
    ELSE IF WithinDistance(list[idx], list[otherIndex], distanceMeters)
    THEN [cluster   |-> Append(acc.cluster, list[otherIndex]),
          crashData |-> Append(acc.crashData, CrashDataOf(list[otherIndex])),
          processed |-> acc.processed \cup {otherIndex}]
    ELSE acc

\* markerList.forEach((otherMarker, otherIndex) => ...) from otherIndex on
RECURSIVE ScanOthers(_, _, _, _, _)
ScanOthers(list, idx, otherIndex, acc, distanceMeters) ==
    IF otherIndex > Len(list) THEN acc
    ELSE ScanOthers(list, idx, otherIndex + 1,
                    ScanVisit(list, idx, otherIndex, acc, distanceMeters),
                    distanceMeters)

\* The body of the outer forEach for one index (lines 529-573).
\* st = [clusters, processed]
SeedVisitUnshift(list, idx, st, distanceMeters) ==
    IF idx \in st.processed THEN st
    ELSE IF NoStoredLatLng(list[idx])
    THEN [clusters  |-> <<[markers |-> <<list[idx]>>,
                           crashData |-> <<CrashDataOf(list[idx])>>]>> \o st.clusters,
          processed |-> st.processed \cup {idx}]
    ELSE LET acc == ScanOthers(list, idx, 1,
                               [cluster   |-> <<list[idx]>>,
                                crashData |-> <<CrashDataOf(list[idx])>>,
                                processed |-> st.processed],
                               distanceMeters)
         IN  [clusters  |-> <<[markers |-> acc.cluster, crashData |-> acc.crashData]>>
                                \o st.clusters,
              processed |-> acc.processed \cup {idx}]

SeedVisit(list, idx, st, distanceMeters) ==
    IF idx \in st.processed THEN st
    ELSE IF NoStoredLatLng(list[idx])
    THEN [clusters  |-> Append(st.clusters,
                               [markers |-> <<list[idx]>>,
                                crashData |-> <<CrashDataOf(list[idx])>>]),
          processed |-> st.processed \cup {idx}]
    ELSE LET acc == ScanOthers(list, idx, 1,
                               [cluster   |-> <<list[idx]>>,
                                crashData |-> <<CrashDataOf(list[idx])>>,
                                processed |-> st.processed],
                               distanceMeters)
         IN  [clusters  |-> Append(st.clusters,
                                   [markers |-> acc.cluster, crashData |-> acc.crashData]),
              processed |-> acc.processed \cup {idx}]

RECURSIVE ClusterFrom(_, _, _, _)
ClusterFrom(list, idx, st, distanceMeters) ==
    IF idx > Len(list) THEN st
    ELSE ClusterFrom(list, idx + 1, SeedVisit(list, idx, st, distanceMeters), distanceMeters)

\* const clusters = []; const processed = new Set();  (lines 526-527): every
\* invocation starts from fresh locals, whatever an earlier invocation left
LocalsProcessedKept == [clusters |-> <<>>, processed |-> processed]

LocalsAtEntry == [clusters |-> <<>>, processed |-> {}]

\* clusterMarkers(markerList, map, distanceMeters) for a list that is given; the
\* body never reads its map parameter
clusterMarkers(list, distanceMeters) ==
    IF Len(list) = 0 THEN <<>>
    ELSE ClusterFrom(list, 1, LocalsAtEntry, distanceMeters).clusters

(***************************************************************************)
(* SpecCluster: clusterMarkers on an arbitrary marker list, one outer      *)
(* iteration per step.                                                     *)
(***************************************************************************)
StoredSeverities == {<<Num(1), Num(2)>>, <<Num(2), Null>>}

\* markers with a numeric latitude (0 included) on the meridian _lng = 1
PlacedShapes ==
    {[_lat |-> Num(n), _lng |-> Num(1), _fatalities |-> sv[1], _injuries |-> sv[2]] :
        n \in 0..MaxCoord, sv \in StoredSeverities}

\* markers with a null latitude, a longitude of 0, both coordinates 0, a string
\* for a latitude
OddShapes ==
    {[_lat |-> Null,   _lng |-> Num(1), _fatalities |-> Null,   _injuries |-> Null],
     [_lat |-> Num(1), _lng |-> Num(0), _fatalities |-> Num(1), _injuries |-> Num(2)],
     [_lat |-> Num(0), _lng |-> Num(0), _fatalities |-> Null,   _injuries |-> Null],
     [_lat |-> Str,    _lng |-> Num(1), _fatalities |-> Null,   _injuries |-> Null]}

MarkerShapes == PlacedShapes \cup OddShapes

\* the k-th object of a list of shapes gets identity k
WithIds(shapes) ==
    [k \in DOMAIN shapes |->
        [id |-> k, _lat |-> shapes[k]._lat, _lng |-> shapes[k]._lng,
         _fatalities |-> shapes[k]._fatalities, _injuries |-> shapes[k]._injuries]]

SeverityIdle ==
    /\ crashes = <<>>
    /\ mostSevere = [fatalities |-> 0, injuries |-> 0]
    /\ pos = 1
    /\ markerColor = "none"

NotCreated == [kind |-> "none"]

IconIdle ==
    /\ clusterGiven = [markers |-> <<>>, crashData |-> <<>>]
    /\ clusterMarker = NotCreated

AppIdle ==
    /\ fileFeatures = <<>>
    /\ markers = <<>>
    /\ markerCount = 0
    /\ allCrashData = <<>>
    /\ selectedYears = <<2021, 2022, 2023, 2024>>
    /\ yearCheckboxes = <<>>
    /\ failedCalls = 0
    /\ layers = <<>>
    /\ pending = 0
    /\ lastOp = "none"
    /\ inFlight = 0

ClusterIdle ==
    /\ markerList = <<>>
    /\ listGiven = TRUE
    /\ clusters = <<>>
    /\ processed = {}
    /\ index = 1
    /\ returned = FALSE
    /\ again = FALSE
    /\ firstResult = <<>>

InitCluster ==
    /\ \/ /\ listGiven = TRUE
          /\ \E shapes \in SeqsUpTo(MarkerShapes, MaxLen) : markerList = WithIds(shapes)
       \/ /\ listGiven = FALSE
          /\ markerList = <<>>
    /\ clusters = <<>>
    /\ processed = {}
    /\ index = 1
    /\ returned = FALSE
    /\ again = FALSE
    /\ firstResult = <<>>
    /\ SeverityIdle
    /\ AppIdle
    /\ IconIdle

\* if (!markerList || markerList.length === 0) return [];
CM_EarlyReturn ==
    /\ ~returned
    /\ ~listGiven \/ Len(markerList) = 0
    /\ returned' = TRUE
    /\ UNCHANGED <<markerList, listGiven, clusters, processed, index, again, firstResult>>
    /\ UNCHANGED <<severityVars, appVars, iconVars>>

CM_Running == ~returned /\ listGiven /\ Len(markerList) > 0 /\ index <= Len(markerList)

\* if (processed.has(index)) return;
CM_Skip ==
    /\ CM_Running
    /\ index \in processed
    /\ index' = index + 1
    /\ UNCHANGED <<markerList, listGiven, clusters, processed, returned, again, firstResult>>
    /\ UNCHANGED <<severityVars, appVars, iconVars>>

\* the seed has no stored lat/lng: a cluster of its own, no scan
CM_NoCoords ==
    /\ CM_Running
    /\ index \notin processed
    /\ NoStoredLatLng(markerList[index])
    /\ LET st == SeedVisit(markerList, index,
                           [clusters |-> clusters, processed |-> processed], ClusterDistance)
       IN  clusters' = st.clusters /\ processed' = st.processed
    /\ index' = index + 1
    /\ UNCHANGED <<markerList, listGiven, returned, again, firstResult>>
    /\ UNCHANGED <<severityVars, appVars, iconVars>>

\* the seed scans every other marker
CM_Scan ==
    /\ CM_Running
    /\ index \notin processed
    /\ ~NoStoredLatLng(markerList[index])
    /\ LET st == SeedVisit(markerList, index,
                           [clusters |-> clusters, processed |-> processed], ClusterDistance)
       IN  clusters' = st.clusters /\ processed' = st.processed
    /\ index' = index + 1
    /\ UNCHANGED <<markerList, listGiven, returned, again, firstResult>>
    /\ UNCHANGED <<severityVars, appVars, iconVars>>

\* return clusters;
CM_Return ==
    /\ ~returned /\ listGiven /\ Len(markerList) > 0
    /\ index > Len(markerList)
    /\ returned' = TRUE
    /\ UNCHANGED <<markerList, listGiven, clusters, processed, index, again, firstResult>>
    /\ UNCHANGED <<severityVars, appVars, iconVars>>

\* clusterMarkers is called once more with the same markerList and threshold: the
\* variables hold what the first invocation left, and the entry of the function
\* (lines 523-527) gives the new invocation its own clusters and processed
CM_CallAgain ==
    /\ returned /\ ~again
    /\ again' = TRUE
    /\ firstResult' = clusters
    /\ clusters' = LocalsAtEntry.clusters
    /\ processed' = LocalsAtEntry.processed
    /\ index' = 1
    /\ returned' = FALSE
    /\ UNCHANGED <<markerList, listGiven>>
    /\ UNCHANGED <<severityVars, appVars, iconVars>>

NextCluster ==
    CM_EarlyReturn \/ CM_Skip \/ CM_NoCoords \/ CM_Scan \/ CM_Return \/ CM_CallAgain

SpecCluster == InitCluster /\ [][NextCluster]_vars

(***************************************************************************)
(* SpecSeverity: getMostSevereCrash on an arbitrary crash list, one        *)
(* forEach iteration per step, then the colour createClusterMarker gives   *)
(* the cluster (script.js 597-599).                                        *)
(***************************************************************************)
CountCrashes ==
    {[fatalities |-> Num(f), injuries |-> Num(i)] : f \in 0..MaxSev, i \in 0..MaxSev}

UnparsedCrashes ==
    {[fatalities |-> Null, injuries |-> Null],
     [fatalities |-> Str,  injuries |-> Num(1)],
     [fatalities |-> Num(1), injuries |-> Str],
     [fatalities |-> Null, injuries |-> Num(2)],
     [fatalities |-> Str,  injuries |-> Str]}

CrashSamples == CountCrashes \cup UnparsedCrashes

InitSeverity ==
    /\ crashes \in SeqsUpTo(CrashSamples, MaxCrashes)
    /\ mostSevere = [fatalities |-> 0, injuries |-> 0]
    /\ pos = 1
    /\ markerColor = "none"
    /\ ClusterIdle
    /\ AppIdle
    /\ IconIdle

GS_Running == pos <= Len(crashes)

\* if (fatalities > mostSevere.fatalities)
GS_MoreFatalities ==
    /\ GS_Running
    /\ NumberOrZero(crashes[pos].fatalities) > mostSevere.fatalities
    /\ mostSevere' = SevereStep(mostSevere, crashes[pos])
    /\ pos' = pos + 1
    /\ UNCHANGED <<crashes, markerColor, clusterVars, appVars, iconVars>>

\* else if (fatalities === mostSevere.fatalities && injuries > mostSevere.injuries)
GS_MoreInjuries ==
    /\ GS_Running
    /\ NumberOrZero(crashes[pos].fatalities) = mostSevere.fatalities
    /\ NumberOrZero(crashes[pos].injuries) > mostSevere.injuries
    /\ mostSevere' = SevereStep(mostSevere, crashes[pos])
    /\ pos' = pos + 1
    /\ UNCHANGED <<crashes, markerColor, clusterVars, appVars, iconVars>>

\* neither branch
GS_Keep ==
    /\ GS_Running
    /\ ~(NumberOrZero(crashes[pos].fatalities) > mostSevere.fatalities)
    /\ ~(/\ NumberOrZero(crashes[pos].fatalities) = mostSevere.fatalities
         /\ NumberOrZero(crashes[pos].injuries) > mostSevere.injuries)
    /\ mostSevere' = SevereStep(mostSevere, crashes[pos])
    /\ pos' = pos + 1
    /\ UNCHANGED <<crashes, markerColor, clusterVars, appVars, iconVars>>

\* const markerColor = getMarkerColor(mostSevere.fatalities, mostSevere.injuries);
GS_Color ==
    /\ pos > Len(crashes)
    /\ markerColor = "none"
    /\ markerColor' = getMarkerColor(Num(mostSevere.fatalities), Num(mostSevere.injuries))
    /\ UNCHANGED <<crashes, mostSevere, pos, clusterVars, appVars, iconVars>>

NextSeverity == GS_MoreFatalities \/ GS_MoreInjuries \/ GS_Keep \/ GS_Color

SpecSeverity == InitSeverity /\ [][NextSeverity]_vars

(***************************************************************************)
(* The application.  A feature of the dataset either lacks `properties` or *)
(* carries TSCrashLat, TSCrashLon, FATALITIES, INJURIES and YEAR.          *)
(***************************************************************************)
NoProperties ==
    [hasProps |-> FALSE, TSCrashLat |-> Null, TSCrashLon |-> Null,
     FATALITIES |-> Null, INJURIES |-> Null, YEAR |-> Null]

FeatureSeverities == {<<Num(1), Null>>}

\* <<TSCrashLat, YEAR>> of the records with a usable coordinate: two records at one
\* place in different years (the second with a two-digit YEAR), one 100 m away
FeaturePlaces == {<<Num(1), Num(2022)>>, <<Num(1), Num(21)>>, <<Num(3), Num(21)>>}

WellFormed ==
    {[hasProps |-> TRUE, TSCrashLat |-> py[1], TSCrashLon |-> Num(1),
      FATALITIES |-> sv[1], INJURIES |-> sv[2], YEAR |-> py[2]] :
        py \in FeaturePlaces, sv \in FeatureSeverities}

\* records with a null coordinate or a string for a coordinate
Malformed ==
    {[hasProps |-> TRUE, TSCrashLat |-> la, TSCrashLon |-> Num(1),
      FATALITIES |-> Null, INJURIES |-> Num(2), YEAR |-> Num(21)] :
        la \in {Null, Str}}

FeatureSamples == WellFormed \cup Malformed \cup {NoProperties}

\* the year checkboxes the user toggles (data-year)
YearBoxes == {2021, 2022}

\* selectedYears.includes(year)
Includes(list, x) == \E k \in DOMAIN list : list[k] = x

\* selectedYears.filter(y => y !== year)
RECURSIVE FilterOut(_, _)
FilterOut(list, x) ==
    IF list = <<>> THEN <<>>
    ELSE IF Head(list) = x THEN FilterOut(Tail(list), x)
    ELSE <<Head(list)>> \o FilterOut(Tail(list), x)

(***************************************************************************)
(* createCrashMarker (script.js 646-694).  The result is null, a marker,   *)
(* or a TypeError: lat.toFixed / lon.toFixed (line 669) is no function     *)
(* when the coordinate is a string.  rec is the record's position in       *)
(* allCrashData and stands for the new object's identity.                  *)
(***************************************************************************)
createCrashMarker(props, rec) ==
    LET lat == props.TSCrashLat
        lon == props.TSCrashLon
        injuries   == OrZero(props.INJURIES)
        fatalities == OrZero(props.FATALITIES)
    IN  IF ~Truthy(lat) \/ ~Truthy(lon) THEN [tag |-> "null"]
        ELSE IF lat.t # "num" \/ lon.t # "num" THEN [tag |-> "throw"]
        ELSE [tag |-> "marker",
              marker |-> [kind |-> "crash", id |-> rec,
                          _lat |-> lat, _lng |-> lon,
                          _fatalities |-> fatalities, _injuries |-> injuries,
                          _crashYear |-> extractYear(props.YEAR),
                          color |-> getMarkerColor(fatalities, injuries)]]

(***************************************************************************)
(* createClusterMarker (script.js 581-643).  The centre is the mean of the *)
(* members' coordinates, kept as the pair <<total, count>>.                *)
(***************************************************************************)
\* totalLat += lat over the members; the sum is taken by halves, which for
\* integers is the sum in order
RECURSIVE SumLat(_)
SumLat(list) ==
    IF list = <<>> THEN 0
    ELSE IF Len(list) = 1 THEN list[1]._lat.v
    ELSE LET half == Len(list) \div 2
         IN  SumLat(SubSeq(list, 1, half)) + SumLat(SubSeq(list, half + 1, Len(list)))

RECURSIVE SumLng(_)
SumLng(list) ==
    IF list = <<>> THEN 0
    ELSE IF Len(list) = 1 THEN list[1]._lng.v
    ELSE LET half == Len(list) \div 2
         IN  SumLng(SubSeq(list, 1, half)) + SumLng(SubSeq(list, half + 1, Len(list)))

ClusterSizeFromEleven(count) == IF count > 100 THEN 40 ELSE IF count > 10 THEN 35 ELSE 30

ClusterSize(count) == IF count > 99 THEN 40 ELSE IF count > 9 THEN 35 ELSE 30

ClusterFontSize(count) == IF count > 99 THEN 10 ELSE IF count > 9 THEN 11 ELSE 12

\* lines 584-595 and 609-642: the marker built once mostSevere and markerColor are
\* known
ClusterMarkerWith(cluster, sev, color) ==
    LET count == Len(cluster.markers)
    IN  [kind |-> "cluster",
         _lat |-> <<SumLat(cluster.markers), count>>,
         _lng |-> <<SumLng(cluster.markers), count>>,
         mostSevere |-> sev,
         color |-> color,
         count |-> count,
         size |-> ClusterSize(count),
         fontSize |-> ClusterFontSize(count),
         _originalMarkers |-> cluster.markers]

createClusterMarker(cluster) ==
    LET sev == getMostSevereCrash(cluster.crashData)
    IN  ClusterMarkerWith(cluster, sev,
                          getMarkerColor(Num(sev.fatalities), Num(sev.injuries)))

(***************************************************************************)
(* addMarker (script.js 383-411) and addSampleMarkers (script.js 866-876). *)
(* Sample coordinates are in millidegrees.                                 *)
(***************************************************************************)
NewMarker(lat, lng, title, category) ==
    [kind |-> "marker", lat |-> lat, lng |-> lng, title |-> title, category |-> category]

sampleLocations ==
    << NewMarker(41560, -87660, "Sample Location 1", "sample"),
       NewMarker(41555, -87670, "Sample Location 2", "sample"),
       NewMarker(41562, -87658, "Sample Location 3", "sample") >>

(***************************************************************************)
(* updateMarkersByYear (script.js 697-769).                                *)
(***************************************************************************)
\* map.removeLayer(marker): the first layer that is this marker, if any
RECURSIVE RemoveLayer(_, _)
RemoveLayer(ls, m) ==
    IF ls = <<>> THEN <<>>
    ELSE IF Head(ls) = m THEN Tail(ls)
    ELSE <<Head(ls)>> \o RemoveLayer(Tail(ls), m)

\* markers.forEach(marker => map.removeLayer(marker))
RECURSIVE RemoveLayers(_, _)
RemoveLayers(ls, shown) ==
    IF shown = <<>> THEN ls
    ELSE RemoveLayers(RemoveLayer(ls, Head(shown)), Tail(shown))

\* allCrashData.forEach(feature => ...) from record k on (lines 710-726);
\* props.YEAR throws when the feature has no properties
RECURSIVE CollectFrom(_, _, _, _)
CollectFrom(data, years, k, allMarkers) ==
    IF k > Len(data) THEN [threw |-> FALSE, allMarkers |-> allMarkers]
    ELSE IF ~data[k].hasProps THEN [threw |-> TRUE, allMarkers |-> allMarkers]
    ELSE LET year == extractYear(data[k].YEAR) IN
         IF year # NoYear /\ Includes(years, year)
         THEN LET made == createCrashMarker(data[k], k) IN
              IF made.tag = "throw" THEN [threw |-> TRUE, allMarkers |-> allMarkers]
              ELSE IF made.tag = "marker"
              THEN CollectFrom(data, years, k + 1, Append(allMarkers, made.marker))
              ELSE CollectFrom(data, years, k + 1, allMarkers)
         ELSE CollectFrom(data, years, k + 1, allMarkers)

\* lines 737-754: the marker shown for one cluster
DisplayAlwaysAggregate(cluster) == createClusterMarker(cluster)

DisplayOf(cluster) ==
    IF Len(cluster.markers) > 1 THEN createClusterMarker(cluster)
    ELSE cluster.markers[1]

\* The globals after updateMarkersByYear ran on (shown, ls, data, years):
\* the list is cleared first, so an exception leaves it empty.
UpdateKeepingOld(shown, ls, data, years) ==
    LET col == CollectFrom(data, years, 1, <<>>)
        cl  == clusterMarkers(col.allMarkers, ClusterDistance)
        new == [c \in DOMAIN cl |-> DisplayOf(cl[c])]
    IN  IF col.threw
        THEN [threw |-> TRUE, markers |-> <<>>, markerCount |-> 0,
              layers |-> RemoveLayers(ls, shown)]
        ELSE [threw |-> FALSE, markers |-> shown \o new,
              markerCount |-> Len(shown) + Len(new),
              layers |-> ls \o new]

\* markerCount = 0 (line 703) left out: the count goes on from the old list's
UpdateCountNotReset(shown, ls, data, years) ==
    LET cleared == RemoveLayers(ls, shown)
        col == CollectFrom(data, years, 1, <<>>)
        cl  == clusterMarkers(col.allMarkers, ClusterDistance)
        new == [c \in DOMAIN cl |-> DisplayOf(cl[c])]
    IN  IF col.threw
        THEN [threw |-> TRUE, markers |-> <<>>, markerCount |-> Len(shown),
              layers |-> cleared]
        ELSE [threw |-> FALSE, markers |-> new, markerCount |-> Len(shown) + Len(new),
              layers |-> cleared \o new]

updateMarkersByYear(shown, ls, data, years) ==
    LET cleared == RemoveLayers(ls, shown)
        col == CollectFrom(data, years, 1, <<>>)
        cl  == clusterMarkers(col.allMarkers, ClusterDistance)
        new == [c \in DOMAIN cl |-> DisplayOf(cl[c])]
    IN  IF col.threw
        THEN [threw |-> TRUE, markers |-> <<>>, markerCount |-> 0, layers |-> cleared]
        ELSE [threw |-> FALSE, markers |-> new, markerCount |-> Len(new),
              layers |-> cleared \o new]

(***************************************************************************)
(* Spec: the handlers of the page.  JavaScript runs a handler to its end   *)
(* before the next event is taken, so a handler is one step -- except      *)
(* where it fires an event itself: map.fitBounds (line 887, reached from   *)
(* line 764) resets the view, and when the zoom changes without animation  *)
(* Leaflet dispatches zoomend to its listeners before fitBounds returns.   *)
(***************************************************************************)
\* if (markers.length > 0) fitMapToMarkers();  (lines 763-765, 884-889):
\* the call is not reached after an exception or with nothing displayed;
\* otherwise fitBounds keeps the zoom (or animates, zoomend coming later as an
\* event of its own), or changes it at once and fires zoomend inside the call
FitBoundsOutcomes(out) ==
    IF out.threw \/ Len(out.markers) = 0 THEN {"not_called"}
    ELSE {"no_zoomend", "zoomend_inside"}

\* what the handler has done when the step ends
OpAfter(out, fit) ==
    IF out.threw THEN "threw"
    ELSE IF fit = "zoomend_inside" THEN "in_fitBounds"
    ELSE "updated"

Init ==
    /\ fileFeatures \in SeqsUpTo(FeatureSamples, MaxFeatures)
    /\ markers = <<>>
    /\ markerCount = 0
    /\ allCrashData = <<>>
    /\ selectedYears = <<2021, 2022, 2023, 2024>>
    /\ yearCheckboxes = [y \in YearBoxes |-> Includes(selectedYears, y)]
    /\ failedCalls = 0
    /\ layers = <<>>
    /\ pending = 1          \* DOMContentLoaded has called loadMarkersFromJSON()
    /\ lastOp = "none"
    /\ inFlight = 0
    /\ ClusterIdle
    /\ SeverityIdle
    /\ IconIdle

\* selectedYears after the change event of the box of `year` (lines 368-375)
YearsAfterAlwaysPush(years, year, checked) ==
    IF checked THEN Append(years, year) ELSE FilterOut(years, year)

YearsAfter(years, year, checked) ==
    IF checked
    THEN IF ~Includes(years, year) THEN Append(years, year) ELSE years
    ELSE FilterOut(years, year)

\* The change handler of a year checkbox (script.js 367-378)
YearChange(year, checked) ==
    LET years == YearsAfter(selectedYears, year, checked)
    IN  /\ inFlight = 0
        /\ yearCheckboxes' = [yearCheckboxes EXCEPT ![year] = checked]
        /\ selectedYears' = years
        /\ failedCalls' = 0
        /\ UNCHANGED <<allCrashData, pending, fileFeatures>>
        /\ \E out \in {updateMarkersByYear(markers, layers, allCrashData, years)} :
           \E fit \in FitBoundsOutcomes(out) :
                /\ markers' = out.markers
                /\ markerCount' = out.markerCount
                /\ layers' = out.layers
                /\ lastOp' = OpAfter(out, fit)
                /\ inFlight' = IF fit = "zoomend_inside" THEN 1 ELSE 0
        /\ UNCHANGED <<clusterVars, severityVars, iconVars>>

\* if (allCrashData.length > 0)  (line 344)
ZoomEndUpdatesAlways(data) == TRUE

ZoomEndUpdates(data) == Len(data) > 0

\* The zoomend handler (script.js 343-347)
ZoomEnd ==
    /\ inFlight = 0
    /\ IF ZoomEndUpdates(allCrashData)
       THEN \E out \in {updateMarkersByYear(markers, layers, allCrashData, selectedYears)} :
            \E fit \in FitBoundsOutcomes(out) :
                /\ markers' = out.markers
                /\ markerCount' = out.markerCount
                /\ layers' = out.layers
                /\ lastOp' = OpAfter(out, fit)
                /\ inFlight' = IF fit = "zoomend_inside" THEN 1 ELSE 0
                /\ failedCalls' = 0
       ELSE /\ UNCHANGED <<markers, markerCount, layers, inFlight, failedCalls>>
            /\ lastOp' = "zoom_skipped"
    /\ UNCHANGED <<allCrashData, selectedYears, yearCheckboxes, pending, fileFeatures>>
    /\ UNCHANGED <<clusterVars, severityVars, iconVars>>

\* window.LeafletMapAPI.addMarker(lat, lng) (script.js 383-411)
AddMarker(lat, lng) ==
    /\ Cardinality({k \in DOMAIN markers :
                       markers[k].kind = "marker" /\ markers[k].category = "default"})
          < MaxApiMarkers
    /\ inFlight = 0
    /\ markers' = Append(markers, NewMarker(lat, lng, "Marker", "default"))
    /\ layers' = Append(layers, NewMarker(lat, lng, "Marker", "default"))
    /\ markerCount' = markerCount + 1
    /\ lastOp' = "add_marker"
    /\ failedCalls' = 0
    /\ UNCHANGED <<allCrashData, selectedYears, yearCheckboxes, pending, fileFeatures, inFlight>>
    /\ UNCHANGED <<clusterVars, severityVars, iconVars>>

\* window.LeafletMapAPI = { ... } (script.js 891-898): the names it defines
LeafletMapAPI ==
    {"addMarker", "loadMarkersFromJSON", "getMapBounds", "fitMapToMarkers", "getMap"}

\* the calls the README's API Reference shows (README.md 99-118)
DocumentedAPI ==
    {"addMarker", "removeMarker", "clearAllMarkers", "fitMapToMarkers", "getMap"}

\* window.LeafletMapAPI[name](...) for a name the object does not define: the
\* property is undefined and the call is a TypeError, nothing is changed
ApiCallUndefined(name) ==
    /\ name \notin LeafletMapAPI
    /\ inFlight = 0
    /\ lastOp' = "not_a_function"
    /\ UNCHANGED <<markers, markerCount, allCrashData, selectedYears, yearCheckboxes, layers, pending,
                   fileFeatures, inFlight, failedCalls>>
    /\ UNCHANGED <<clusterVars, severityVars, iconVars>>

\* window.LeafletMapAPI.loadMarkersFromJSON(): the call, up to `await fetch`
LoadCall ==
    /\ pending < MaxPending
    /\ inFlight = 0
    /\ pending' = pending + 1
    /\ lastOp' = "load_called"
    /\ UNCHANGED <<markers, markerCount, allCrashData, selectedYears, yearCheckboxes, layers, fileFeatures,
                   inFlight, failedCalls>>
    /\ UNCHANGED <<clusterVars, severityVars, iconVars>>

\* what the catch block (lines 811-817) leaves in the markers list
FallbackAlways(data, shown) == shown \o sampleLocations

FallbackReplacing(data, shown) ==
    IF Len(data) = 0 THEN sampleLocations ELSE shown

Fallback(data, shown) ==
    IF Len(data) = 0 THEN shown \o sampleLocations ELSE shown

FetchFailures == {"fetch_rejected", "http_not_ok", "json_unparsable"}

\* loadMarkersFromJSON when fetch rejects, response.ok is false, or
\* response.json() rejects: the catch block runs with the globals untouched
LoadFail(why) ==
    /\ pending > 0
    /\ inFlight = 0
    /\ Len(allCrashData) = 0 => Len(markers) + Len(sampleLocations) <= MaxShown
    /\ pending' = pending - 1
    /\ markers' = Fallback(allCrashData, markers)
    /\ layers' = Fallback(allCrashData, layers)
    /\ markerCount' = markerCount + (Len(Fallback(allCrashData, markers)) - Len(markers))
    /\ lastOp' = "load_failed"
    /\ failedCalls' = IF Len(allCrashData) = 0 /\ (Len(markers) = 0 \/ failedCalls > 0)
                      THEN failedCalls + 1 ELSE 0
    /\ UNCHANGED <<allCrashData, selectedYears, yearCheckboxes, fileFeatures, inFlight>>
    /\ UNCHANGED <<clusterVars, severityVars, iconVars>>

\* loadMarkersFromJSON when the file arrives: allCrashData = geojson.features || [].
\* The year count (lines 791-803) reads feature.properties.YEAR of every feature and
\* throws on one without properties, before updateMarkersByYear is reached; the
\* catch block then finds allCrashData non-empty.
LoadSuccess(features) ==
    /\ pending > 0
    /\ inFlight = 0
    /\ pending' = pending - 1
    /\ allCrashData' = features
    /\ failedCalls' = 0
    /\ IF \E k \in DOMAIN features : ~features[k].hasProps
       THEN /\ UNCHANGED <<markers, markerCount, layers, inFlight>>
            /\ lastOp' = "threw_counting"
       ELSE \E out \in {updateMarkersByYear(markers, layers, features, selectedYears)} :
            \E fit \in FitBoundsOutcomes(out) :
                /\ markers' = out.markers
                /\ markerCount' = out.markerCount
                /\ layers' = out.layers
                /\ lastOp' = OpAfter(out, fit)
                /\ inFlight' = IF fit = "zoomend_inside" THEN 1 ELSE 0
    /\ UNCHANGED <<selectedYears, yearCheckboxes, fileFeatures>>
    /\ UNCHANGED <<clusterVars, severityVars, iconVars>>

\* The zoomend handler (script.js 343-347) run by fitBounds inside an
\* updateMarkersByYear that has not returned: it calls updateMarkersByYear again.
\* The inner call shows the same markers, finds the view already fitted to them and
\* runs to its last line.
FitBoundsZoomEnd ==
    /\ inFlight = 1
    /\ failedCalls' = 0
    /\ IF ZoomEndUpdates(allCrashData)
       THEN \E out \in {updateMarkersByYear(markers, layers, allCrashData, selectedYears)} :
                /\ markers' = out.markers
                /\ markerCount' = out.markerCount
                /\ layers' = out.layers
                /\ lastOp' = "in_nested_update"
                /\ inFlight' = 2
       ELSE /\ UNCHANGED <<markers, markerCount, layers>>
            /\ lastOp' = "updated"
            /\ inFlight' = 0
    /\ UNCHANGED <<allCrashData, selectedYears, yearCheckboxes, pending, fileFeatures>>
    /\ UNCHANGED <<clusterVars, severityVars, iconVars>>

\* the inner updateMarkersByYear returns, then the zoomend handler, fitBounds,
\* fitMapToMarkers, and the outer updateMarkersByYear after updateMarkerCount()
UpdateReturns ==
    /\ inFlight = 2
    /\ inFlight' = 0
    /\ failedCalls' = 0
    /\ lastOp' = "updated"
    /\ UNCHANGED <<markers, markerCount, allCrashData, selectedYears, yearCheckboxes, layers, pending,
                   fileFeatures>>
    /\ UNCHANGED <<clusterVars, severityVars, iconVars>>

Next ==
    \/ \E year \in YearBoxes, checked \in BOOLEAN : YearChange(year, checked)
    \/ ZoomEnd
    \/ \E lat \in {1}, lng \in {1} : AddMarker(lat, lng)
    \/ LoadCall
    \/ \E why \in FetchFailures : LoadFail(why)
    \/ LoadSuccess(fileFeatures)
    \/ FitBoundsZoomEnd
    \/ UpdateReturns
    \/ \E name \in DocumentedAPI : ApiCallUndefined(name)

Spec == Init /\ [][Next]_vars

(***************************************************************************)
(* SpecIcon: createClusterMarker (script.js 581-643) on the cluster of n   *)
(* crash markers at one place, { markers: cluster, crashData } as          *)
(* clusterMarkers builds it (lines 532-536, 563-567, 572).  The reduction  *)
(* getMostSevereCrash(crashData) runs one forEach iteration per step (the  *)
(* GS_ actions), then the marker is built.                                 *)
(***************************************************************************)
\* the k-th record at the place: the first with an injury, the second with a
\* fatality, the others with neither
RecordAtOnePlace(k) ==
    [hasProps |-> TRUE, TSCrashLat |-> Num(1), TSCrashLon |-> Num(1),
     FATALITIES |-> IF k = 2 THEN Num(1) ELSE Null,
     INJURIES |-> IF k = 1 THEN Num(1) ELSE Null,
     YEAR |-> Num(2022)]

CoLocated(n) == [k \in 1..n |-> createCrashMarker(RecordAtOnePlace(k), k).marker]

InitIcon ==
    /\ \E n \in 1..MaxMembers :
          clusterGiven = [markers   |-> CoLocated(n),
                          crashData |-> [k \in 1..n |-> CrashDataOf(CoLocated(n)[k])]]
    /\ clusterMarker = NotCreated
    /\ crashes = clusterGiven.crashData
    /\ mostSevere = [fatalities |-> 0, injuries |-> 0]
    /\ pos = 1
    /\ markerColor = "none"
    /\ ClusterIdle
    /\ AppIdle

\* lines 609-642, after mostSevere and markerColor (lines 597-599) are there
CCM_Create ==
    /\ clusterMarker = NotCreated
    /\ markerColor # "none"
    /\ clusterMarker' = ClusterMarkerWith(clusterGiven, mostSevere, markerColor)
    /\ UNCHANGED <<clusterGiven, clusterVars, severityVars, appVars>>

NextIcon == GS_MoreFatalities \/ GS_MoreInjuries \/ GS_Keep \/ GS_Color \/ CCM_Create

SpecIcon == InitIcon /\ [][NextIcon]_vars

(***************************************************************************)
(* Properties of clusterMarkers (checked under SpecCluster).               *)
(***************************************************************************)
Ids == 1..Len(markerList)

\* the input indices held by cluster c
MemberIds(c) == {clusters[c].markers[j].id : j \in DOMAIN clusters[c].markers}

\* the input indices held by the clusters before cluster c
EarlierIds(c) == UNION {MemberIds(d) : d \in 1..(c - 1)}

\* the places (cluster, position) where input index k occurs
PlacesOf(k) ==
    {<<c, j>> \in (DOMAIN clusters) \X (1..Len(markerList)) :
        j \in DOMAIN clusters[c].markers /\ clusters[c].markers[j].id = k}

Finished == returned /\ listGiven

\* the distance the seed's scan computes for input index m, where it computes one
SqDistance(s, m) ==
    getDistanceInMetersSq(markerList[s]._lat.v, markerList[s]._lng.v,
                          markerList[m]._lat.v, markerList[m]._lng.v)

HasNumbers(k) == markerList[k]._lat.t = "num" /\ markerList[k]._lng.t = "num"

\* the scan of seed s computes a distance for m: both have stored coordinates
Compared(s, m) ==
    /\ m # s
    /\ ~NoStoredLatLng(markerList[s]) /\ ~NoStoredLatLng(markerList[m])
    /\ HasNumbers(s) /\ HasNumbers(m)

SeedId(c) == clusters[c].markers[1].id

\* C1: the clusters returned partition the input: every input index occurs in
\* exactly one cluster, exactly once, as the input marker itself, and no cluster
\* is empty.
C1_Partition ==
    Finished =>
        /\ \A k \in Ids : Cardinality(PlacesOf(k)) = 1
        /\ \A c \in DOMAIN clusters :
              /\ Len(clusters[c].markers) > 0
              /\ \A j \in DOMAIN clusters[c].markers :
                    /\ clusters[c].markers[j].id \in Ids
                    /\ clusters[c].markers[j] = markerList[clusters[c].markers[j].id]

C1_Witness ==
    /\ Finished
    /\ Len(markerList) = 3
    /\ Len(clusters) = 2
    /\ \E c \in DOMAIN clusters : Len(clusters[c].markers) = 2

\* C2: grouping is one-level.  The members of a cluster other than its seed are
\* exactly the markers that no earlier cluster had taken when the seed was visited
\* and whose computed distance to the seed is within the threshold; distance to
\* another member never adds a marker.
C2_OneLevel ==
    \A c \in DOMAIN clusters :
        LET s == SeedId(c) IN
        MemberIds(c) \ {s} =
            {m \in Ids : /\ m \notin EarlierIds(c)
                         /\ Compared(s, m)
                         /\ SqDistance(s, m) <= ClusterDistance * ClusterDistance}

\* a marker within the threshold of a member, beyond it from the seed, left out
C2_Witness ==
    /\ Finished
    /\ \E c \in DOMAIN clusters : \E j \in DOMAIN clusters[c].markers : \E m \in Ids :
          /\ j > 1
          /\ m \notin MemberIds(c) /\ m \notin EarlierIds(c)
          /\ Compared(SeedId(c), m)
          /\ Compared(clusters[c].markers[j].id, m)
          /\ SqDistance(clusters[c].markers[j].id, m) <= ClusterDistance * ClusterDistance
          /\ SqDistance(SeedId(c), m) > ClusterDistance * ClusterDistance

\* C3: the threshold test is inclusive.  Of the markers still unprocessed when a
\* seed is visited and compared with it, one at exactly distanceMeters is in the
\* seed's cluster and one strictly farther is not.
C3_Inclusive ==
    \A c \in DOMAIN clusters : \A m \in Ids :
        LET s == SeedId(c) IN
        (m \notin EarlierIds(c) /\ Compared(s, m)) =>
            /\ SqDistance(s, m) = ClusterDistance * ClusterDistance => m \in MemberIds(c)
            /\ SqDistance(s, m) > ClusterDistance * ClusterDistance => m \notin MemberIds(c)

C3_Witness ==
    /\ Finished
    /\ \E c \in DOMAIN clusters : \E m, n \in Ids :
          /\ m \notin EarlierIds(c) /\ Compared(SeedId(c), m)
          /\ n \notin EarlierIds(c) /\ Compared(SeedId(c), n)
          /\ SqDistance(SeedId(c), m) = ClusterDistance * ClusterDistance
          /\ m \in MemberIds(c)
          /\ SqDistance(SeedId(c), n) > ClusterDistance * ClusterDistance
          /\ n \notin MemberIds(c)

\* C7: clusters come in the order of their first-seen member.  The seed is the
\* lowest input index of its cluster, seeds increase strictly along the output,
\* and the members after the seed are in increasing input order.
C7_Order ==
    /\ \A c \in DOMAIN clusters : \A k \in MemberIds(c) : SeedId(c) <= k
    /\ \A c, d \in DOMAIN clusters : c < d => SeedId(c) < SeedId(d)
    /\ \A c \in DOMAIN clusters : \A i, j \in DOMAIN clusters[c].markers :
          i < j => clusters[c].markers[i].id < clusters[c].markers[j].id

\* markers 1 and 3 grouped, marker 2 alone after them
C7_Witness ==
    /\ Finished
    /\ Len(clusters) = 2
    /\ MemberIds(1) = {1, 3}
    /\ MemberIds(2) = {2}

\* what a crashData entry holds for a stored count: the count itself, and 0 for a
\* count that is missing or 0
HeldFor(stored) == IF stored.t = "num" THEN stored ELSE Num(0)

\* C23: in every cluster clusterMarkers builds and returns, crashData is as long
\* as markers, and crashData[k] holds the fatalities and injuries stored on
\* markers[k] (0 for a count the marker does not have).
C23_CrashDataAligned ==
    \A c \in DOMAIN clusters :
        /\ Len(clusters[c].crashData) = Len(clusters[c].markers)
        /\ \A k \in DOMAIN clusters[c].markers :
              /\ clusters[c].crashData[k].fatalities
                    = HeldFor(clusters[c].markers[k]._fatalities)
              /\ clusters[c].crashData[k].injuries
                    = HeldFor(clusters[c].markers[k]._injuries)

\* a returned cluster of two members whose stored counts differ, the second
\* without an injury count
C23_Witness ==
    /\ Finished
    /\ \E c \in DOMAIN clusters :
          /\ Len(clusters[c].markers) = 2
          /\ clusters[c].markers[1]._fatalities = Num(1)
          /\ clusters[c].markers[2]._fatalities = Num(2)
          /\ clusters[c].markers[2]._injuries = Null
          /\ clusters[c].crashData[2].injuries = Num(0)

\* the stored position of input marker k is (lat, lng), in grid units
PlacedAt(k, lat, lng) == markerList[k]._lat = Num(lat) /\ markerList[k]._lng = Num(lng)

\* C12 (as claimed): two points on the equator, at longitude 0 and one threshold
\* east of it, form one 2-member cluster whose display point is the mean of the
\* members' coordinates on each axis (latitude 0, longitude one half).
C12_EquatorPair ==
    (/\ Finished
     /\ Len(markerList) = 2
     /\ PlacedAt(1, 0, 0)
     /\ PlacedAt(2, 0, 1)
     /\ SqDistance(1, 2) <= ClusterDistance * ClusterDistance)
    =>
        /\ Len(clusters) = 1
        /\ MemberIds(1) = {1, 2}
        /\ createClusterMarker(clusters[1])._lat = <<0, 2>>
        /\ createClusterMarker(clusters[1])._lng = <<1, 2>>

\* C14: a second invocation of clusterMarkers on the same marker list with the
\* same threshold returns the same clusters (same members, same order inside each
\* cluster, same order of clusters) as the first, whatever the first left behind.
C14_SameResult == (returned /\ again) => clusters = firstResult

\* both invocations returned [1, 3] then [2]
C14_Witness ==
    /\ returned /\ again /\ listGiven
    /\ Len(markerList) = 3
    /\ Len(firstResult) = 2
    /\ Len(firstResult[1].markers) = 2
    /\ clusters = firstResult

\* the input indices of cluster c, in the cluster's order
OrderedIds(c) == [j \in DOMAIN clusters[c].markers |-> clusters[c].markers[j].id]

\* the (fatalities, injuries) pair stored on input marker k, as numbers
SeverityOf(k) ==
    [fatalities |-> NumberOrZero(markerList[k]._fatalities),
     injuries   |-> NumberOrZero(markerList[k]._injuries)]

\* the greater of two pairs, fatalities compared first, injuries second
LexMaxOf(a, b) ==
    IF a.fatalities > b.fatalities THEN a
    ELSE IF b.fatalities > a.fatalities THEN b
    ELSE IF a.injuries >= b.injuries THEN a ELSE b

\* three markers A, B, C in input order, all with usable coordinates: A and B
\* closer than the threshold, C beyond it from both
ThreePoints ==
    /\ Len(markerList) = 3
    /\ Compared(1, 2) /\ Compared(1, 3) /\ Compared(2, 3)
    /\ SqDistance(1, 2) < ClusterDistance * ClusterDistance
    /\ SqDistance(1, 3) > ClusterDistance * ClusterDistance
    /\ SqDistance(2, 3) > ClusterDistance * ClusterDistance

\* C13: for three points A, B, C with A and B closer than the threshold and C far
\* from both, clusterMarkers returns exactly the clusters [A, B] and [C], in this
\* order, and the severity [A, B] reduces to is the lexicographic maximum of A's
\* and B's severities.
C13_ThreePoints ==
    (Finished /\ ThreePoints) =>
        /\ Len(clusters) = 2
        /\ OrderedIds(1) = <<1, 2>>
        /\ OrderedIds(2) = <<3>>
        /\ getMostSevereCrash(clusters[1].crashData) = LexMaxOf(SeverityOf(1), SeverityOf(2))

\* A has (1, 2), B has (2, 0): the cluster reduces to (2, 0), not to (2, 2)
C13_Witness ==
    /\ Finished /\ ThreePoints
    /\ SeverityOf(1) = [fatalities |-> 1, injuries |-> 2]
    /\ SeverityOf(2) = [fatalities |-> 2, injuries |-> 0]
    /\ Len(clusters) = 2
    /\ getMostSevereCrash(clusters[1].crashData) = [fatalities |-> 2, injuries |-> 0]

\* input marker k has no valid stored coordinates: one of them is missing, 0 (which
\* the code's test takes for missing) or not a number
NoValidCoordinates(k) == NoStoredLatLng(markerList[k]) \/ ~HasNumbers(k)

\* C18: a marker without valid stored coordinates is always alone in its cluster:
\* as a seed it takes no other marker with it, and no other seed's cluster takes it.
C18_InvalidAlone ==
    \A c \in DOMAIN clusters : \A k \in MemberIds(c) :
        NoValidCoordinates(k) => MemberIds(c) = {k}

\* a seed with latitude 0 and a candidate with longitude 0, each one threshold
\* away from the valid marker between them, all three emitted alone
C18_Witness ==
    /\ Finished
    /\ Len(markerList) = 3
    /\ PlacedAt(1, 0, 1) /\ PlacedAt(2, 1, 1) /\ PlacedAt(3, 1, 0)
    /\ SqDistance(1, 2) <= ClusterDistance * ClusterDistance
    /\ SqDistance(2, 3) <= ClusterDistance * ClusterDistance
    /\ Len(clusters) = 3

(***************************************************************************)
(* Properties of getMostSevereCrash and getMarkerColor (SpecSeverity).     *)
(***************************************************************************)
Reduced == pos > Len(crashes)

IsCount(x) == x.t = "num" /\ x.v >= 0

\* lexicographic order on (fatalities, injuries), fatalities dominant
LexGeq(f1, i1, f2, i2) == f1 > f2 \/ (f1 = f2 /\ i1 >= i2)

\* C4: for a non-empty crash list of non-negative integer counts the result of
\* getMostSevereCrash is >= every member's (fatalities, injuries) pair in the
\* lexicographic order and is the pair of some member.
C4_LexMax ==
    (/\ Reduced
     /\ Len(crashes) > 0
     /\ \A k \in DOMAIN crashes : IsCount(crashes[k].fatalities) /\ IsCount(crashes[k].injuries))
    =>
        /\ \A k \in DOMAIN crashes :
              LexGeq(mostSevere.fatalities, mostSevere.injuries,
                     crashes[k].fatalities.v, crashes[k].injuries.v)
        /\ \E k \in DOMAIN crashes :
              /\ mostSevere.fatalities = crashes[k].fatalities.v
              /\ mostSevere.injuries = crashes[k].injuries.v

\* the maximum is neither the first member nor the pointwise maximum
C4_Witness ==
    /\ Reduced
    /\ Len(crashes) = 3
    /\ crashes[1] = [fatalities |-> Num(0), injuries |-> Num(2)]
    /\ crashes[2] = [fatalities |-> Num(1), injuries |-> Num(0)]
    /\ crashes[3] = [fatalities |-> Num(1), injuries |-> Num(1)]
    /\ mostSevere = [fatalities |-> 1, injuries |-> 1]

\* C8: the colour given to a cluster is red if any member has fatalities > 0,
\* otherwise orange if any member has injuries > 0, otherwise yellow.
C8_ClusterColor ==
    markerColor # "none" =>
        markerColor =
            IF \E k \in DOMAIN crashes : NumberOrZero(crashes[k].fatalities) > 0 THEN "red"
            ELSE IF \E k \in DOMAIN crashes : NumberOrZero(crashes[k].injuries) > 0 THEN "orange"
            ELSE "yellow"

\* members (0, 2) and (1, 0) reduce to (1, 0) and give red
C8_Witness ==
    /\ crashes = << [fatalities |-> Num(0), injuries |-> Num(2)],
                    [fatalities |-> Num(1), injuries |-> Num(0)] >>
    /\ mostSevere = [fatalities |-> 1, injuries |-> 0]
    /\ markerColor = "red"

\* a severity field Number() cannot parse: null, undefined, a non-numeric string
Unparsed(x) == x \in {Null, Str}

\* the count such a field is claimed to stand for
AsCount(x) == IF Unparsed(x) THEN 0 ELSE x.v

\* the colour policy on two counts
ColourOf(f, i) == IF f > 0 THEN "red" ELSE IF i > 0 THEN "orange" ELSE "yellow"

\* C16: severity fields that cannot be parsed count as 0.  The reduction is the
\* lexicographic maximum of the members' pairs with every unparsable field read as
\* 0 (or (0, 0), the initial accumulator), getMarkerColor of a member's fields is
\* the colour of the same pair, and a list whose members carry no parsable field
\* reduces to (0, 0) and is coloured yellow.
C16_UnparsedAsZero ==
    /\ \A k \in DOMAIN crashes :
          getMarkerColor(crashes[k].fatalities, crashes[k].injuries)
              = ColourOf(AsCount(crashes[k].fatalities), AsCount(crashes[k].injuries))
    /\ Reduced =>
          /\ \A k \in DOMAIN crashes :
                LexGeq(mostSevere.fatalities, mostSevere.injuries,
                       AsCount(crashes[k].fatalities), AsCount(crashes[k].injuries))
          /\ \/ mostSevere = [fatalities |-> 0, injuries |-> 0]
             \/ \E k \in DOMAIN crashes :
                   mostSevere = [fatalities |-> AsCount(crashes[k].fatalities),
                                 injuries   |-> AsCount(crashes[k].injuries)]
    /\ (/\ markerColor # "none"
        /\ \A k \in DOMAIN crashes :
              Unparsed(crashes[k].fatalities) /\ Unparsed(crashes[k].injuries))
       => /\ mostSevere = [fatalities |-> 0, injuries |-> 0]
          /\ markerColor = "yellow"

\* members (null, null) and ("abc", "abc") reduced to (0, 0), coloured yellow
C16_Witness ==
    /\ crashes = << [fatalities |-> Null, injuries |-> Null],
                    [fatalities |-> Str,  injuries |-> Str] >>
    /\ mostSevere = [fatalities |-> 0, injuries |-> 0]
    /\ markerColor = "yellow"

(***************************************************************************)
(* Properties of createClusterMarker (checked under SpecIcon).             *)
(***************************************************************************)
\* C20: createClusterMarker picks size and font by member count in three bands:
\* up to 9 members size 30 and font 12, 10 to 99 members size 35 and font 11,
\* 100 members or more size 40 and font 10.
C20_Bands ==
    clusterMarker # NotCreated =>
        LET count == Len(clusterGiven.markers) IN
        /\ clusterMarker.count = count
        /\ count <= 9 => clusterMarker.size = 30 /\ clusterMarker.fontSize = 12
        /\ (10 <= count /\ count <= 99) =>
              clusterMarker.size = 35 /\ clusterMarker.fontSize = 11
        /\ count >= 100 => clusterMarker.size = 40 /\ clusterMarker.fontSize = 10

\* a cluster of exactly 100 members, the first count of the largest band
C20_Witness ==
    /\ Len(clusterGiven.markers) = 100
    /\ clusterMarker # NotCreated
    /\ clusterMarker.size = 40
    /\ clusterMarker.fontSize = 10

(***************************************************************************)
(* Properties of the application (checked under Spec).                     *)
(***************************************************************************)
\* the records whose extracted year is in selectedYears
SelectedRecords ==
    {k \in DOMAIN allCrashData :
        /\ allCrashData[k].hasProps
        /\ extractYear(allCrashData[k].YEAR) # NoYear
        /\ Includes(selectedYears, extractYear(allCrashData[k].YEAR))}

\* a record with numeric, non-null coordinates
HasCoordinates(k) ==
    /\ allCrashData[k].hasProps
    /\ allCrashData[k].TSCrashLat.t = "num"
    /\ allCrashData[k].TSCrashLon.t = "num"

\* the records a displayed marker stands for
RecordsOf(m) ==
    IF m.kind = "crash" THEN {m.id}
    ELSE IF m.kind = "cluster"
    THEN {m._originalMarkers[j].id : j \in DOMAIN m._originalMarkers}
    ELSE {}

ShownRecords == UNION {RecordsOf(markers[k]) : k \in DOMAIN markers}

\* the last handler was a recomputation that ran to its end
Recomputed == lastOp = "updated"

\* C5 (as claimed): after a recomputation the display accounts for every selected
\* record; one with a null coordinate is shown as a singleton of its own.
C5_AllRecordsShown ==
    Recomputed =>
        \A k \in SelectedRecords :
            /\ k \in ShownRecords
            /\ allCrashData[k].TSCrashLat = Null =>
                  \E j \in DOMAIN markers :
                      markers[j].kind = "crash" /\ markers[j].id = k

\* C6 (as claimed): no malformed record aborts a recomputation, and every
\* well-formed selected record is rendered.
C6_NeverAborts ==
    /\ lastOp # "threw"
    /\ lastOp # "threw_counting"
    /\ Recomputed => \A k \in SelectedRecords : HasCoordinates(k) => k \in ShownRecords

\* a loadMarkersFromJSON call ends in its catch block on a failed fetch in this step
LoadFailed == pending' = pending - 1 /\ lastOp' = "load_failed"

\* C9 (as claimed): every failed fetch ends with the three sample markers added
\* to the display.
C9_AlwaysFallback ==
    [][LoadFailed =>
          /\ markers' = markers \o sampleLocations
          /\ layers' = layers \o sampleLocations]_vars

\* C9 (amended): a failed fetch adds the three sample markers when allCrashData is
\* empty, and leaves the display as it was when allCrashData is non-empty.
C9_FallbackWhenEmpty ==
    [][LoadFailed =>
          IF Len(allCrashData) = 0
          THEN /\ markers' = markers \o sampleLocations
               /\ layers' = layers \o sampleLocations
               /\ markerCount' = markerCount + 3
          ELSE UNCHANGED <<markers, layers, markerCount>>]_vars

C9_Witness ==
    /\ lastOp = "load_failed"
    /\ Len(allCrashData) = 0
    /\ markers = sampleLocations
    /\ layers = sampleLocations
    /\ markerCount = 3

\* C11 (as claimed): no updateMarkersByYear starts while another has not returned.
C11_NoReentry == inFlight <= 1

\* the last handler ran updateMarkersByYear, to its end or to an exception
RecomputationEnded == lastOp \in {"updated", "threw"}

\* C15 (as claimed): empty input is not an error.  clusterMarkers of an empty list
\* is the empty list, and a recomputation with no selected record does not throw
\* and ends with an empty markers list and markerCount 0.
C15_EmptyIsNoError ==
    /\ clusterMarkers(<<>>, ClusterDistance) = <<>>
    /\ (RecomputationEnded /\ SelectedRecords = {}) =>
          /\ lastOp = "updated"
          /\ markers = <<>>
          /\ markerCount = 0

\* C17 (as claimed): window.LeafletMapAPI has removeMarker and clearAllMarkers
\* alongside addMarker, fitMapToMarkers and getMap, so that no documented call
\* fails for want of the function.
C17_DocumentedAPI ==
    /\ {"removeMarker", "clearAllMarkers", "addMarker", "fitMapToMarkers", "getMap"}
           \subseteq LeafletMapAPI
    /\ lastOp # "not_a_function"

\* C21: whatever handlers have run (addMarker, the fallback's addSampleMarkers,
\* updateMarkersByYear from a load, a checkbox or a zoom), markerCount equals
\* markers.length.
C21_CountIsLength == markerCount = Len(markers)

\* two crash markers from a recomputation, then one marker added through the API
C21_Witness ==
    /\ lastOp = "add_marker"
    /\ Len(markers) = 3
    /\ markerCount = 3
    /\ markers[1].kind = "crash"
    /\ markers[3].kind = "marker"

\* C24: a loadMarkersFromJSON call that fails (fetch, HTTP status or JSON parsing)
\* while allCrashData holds the records of an earlier successful load leaves
\* allCrashData, markers, markerCount, selectedYears and the map's layers as they
\* were: no sample marker is added.
C24_FailedReloadKeepsAll ==
    [][(LoadFailed /\ Len(allCrashData) > 0) =>
          UNCHANGED <<allCrashData, markers, markerCount, selectedYears, layers>>]_vars

\* a second call has failed after a load that left crash markers on the map
C24_Witness ==
    /\ lastOp = "load_failed"
    /\ Len(allCrashData) > 0
    /\ Len(markers) > 0
    /\ \A k \in DOMAIN markers : markers[k].kind # "marker"
    /\ layers = markers

\* C25: a zoomend event while allCrashData is empty leaves markers, markerCount,
\* selectedYears and the map's layers as they were.
C25_ZoomKeepsMarkers ==
    [][(Len(allCrashData) = 0 /\ ZoomEnd) =>
          UNCHANGED <<markers, markerCount, selectedYears, layers>>]_vars

\* the three sample markers and a marker added through addMarker, after a zoom
C25_Witness ==
    /\ lastOp = "zoom_skipped"
    /\ Len(allCrashData) = 0
    /\ Len(markers) = 4
    /\ markerCount = 4
    /\ \E k \in DOMAIN markers : markers[k].category = "sample"
    /\ \E k \in DOMAIN markers : markers[k].category = "default"

\* C26: a loadMarkersFromJSON call that fails while allCrashData is empty appends
\* the three sample markers to the markers shown and removes none; and after k
\* failed calls from an empty display, with nothing else changing the display in
\* between, markers.length = markerCount = 3k.
C26_ThreePerFailure ==
    /\ [](failedCalls > 0 =>
            /\ Len(markers) = 3 * failedCalls
            /\ markerCount = 3 * failedCalls)
    /\ [][(LoadFailed /\ Len(allCrashData) = 0) =>
            /\ SubSeq(markers', 1, Len(markers)) = markers
            /\ SubSeq(markers', Len(markers) + 1, Len(markers')) = sampleLocations
            /\ markerCount' = markerCount + 3]_vars

\* two failed calls in a row from an empty display: six sample markers
C26_Witness ==
    /\ failedCalls = 2
    /\ lastOp = "load_failed"
    /\ Len(markers) = 6
    /\ markerCount = 6

NoDuplicates(list) == \A i, j \in DOMAIN list : i # j => list[i] # list[j]

\* the years a checkbox or the default list can name
KnownYears == YearBoxes \cup {2021, 2022, 2023, 2024}

\* C22: after any sequence of change events of the year boxes, selectedYears
\* holds no year twice, and a year is in it exactly when the latest change event
\* of its box left the box checked; a year whose box had no event is in it
\* exactly when it is one of the defaults 2021-2024.
C22_YearsFollowBoxes ==
    /\ NoDuplicates(selectedYears)
    /\ \A y \in YearBoxes : Includes(selectedYears, y) <=> yearCheckboxes[y]
    /\ \A y \in KnownYears \ YearBoxes : Includes(selectedYears, y)

\* 2021 unchecked and checked again, 2022 unchecked
C22_Witness ==
    /\ selectedYears = <<2023, 2024, 2021>>
    /\ yearCheckboxes[2021]
    /\ ~ yearCheckboxes[2022]

\* the markers of the selected records, in dataset order
RECURSIVE SelectedMarkersFrom(_)
SelectedMarkersFrom(k) ==
    IF k > Len(allCrashData) THEN <<>>
    ELSE IF k \in SelectedRecords /\ ~NoStoredLatLng([_lat |-> allCrashData[k].TSCrashLat,
                                                      _lng |-> allCrashData[k].TSCrashLon])
    THEN <<createCrashMarker(allCrashData[k], k).marker>> \o SelectedMarkersFrom(k + 1)
    ELSE SelectedMarkersFrom(k + 1)

ClustersOfSelected == clusterMarkers(SelectedMarkersFrom(1), ClusterDistance)

\* the number of records a displayed marker stands for
MemberCount(m) == IF m.kind = "cluster" THEN Len(m._originalMarkers) ELSE 1

RECURSIVE SumMemberCounts(_)
SumMemberCounts(list) ==
    IF list = <<>> THEN 0 ELSE MemberCount(Head(list)) + SumMemberCounts(Tail(list))

\* C19: after a completed recomputation there is exactly one displayed marker per
\* cluster, in cluster order: the member marker itself for a singleton cluster, an
\* aggregate marker labelled with the member count for a cluster of two or more;
\* the member counts add up to the number of clustered records.
C19_OnePerCluster ==
    Recomputed =>
        /\ Len(markers) = Len(ClustersOfSelected)
        /\ \A c \in DOMAIN ClustersOfSelected :
              LET members == ClustersOfSelected[c].markers IN
              IF Len(members) = 1
              THEN markers[c] = members[1]
              ELSE /\ markers[c].kind = "cluster"
                   /\ markers[c].count = Len(members)
                   /\ markers[c]._originalMarkers = members
        /\ SumMemberCounts(markers) = Len(SelectedMarkersFrom(1))

\* two records at one place shown as one aggregate marker labelled 2
C19_Witness ==
    /\ Recomputed
    /\ Len(SelectedMarkersFrom(1)) = 2
    /\ Len(ClustersOfSelected) = 1
    /\ Len(markers) = 1
    /\ markers[1].kind = "cluster"
    /\ markers[1].count = 2

\* C10: after a completed recomputation the markers list is exactly the display of
\* the clusters of the currently selected records, the map holds exactly those
\* markers, and nothing of an earlier display (earlier recomputations, sample
\* markers, addMarker markers) is left.
C10_Rebuilt ==
    Recomputed =>
        /\ markers = [c \in DOMAIN ClustersOfSelected |-> DisplayOf(ClustersOfSelected[c])]
        /\ \A k \in DOMAIN markers : markers[k].kind \in {"crash", "cluster"}
        /\ ShownRecords \subseteq SelectedRecords
        /\ layers = markers
        /\ markerCount = Len(markers)

\* 2021 was unchecked and checked again after the load; a cluster of two records
\* and nothing else is displayed
C10_Witness ==
    /\ Recomputed
    /\ selectedYears = <<2022, 2023, 2024, 2021>>
    /\ Len(allCrashData) = 2
    /\ Len(markers) = 1
    /\ markers[1].kind = "cluster"
    /\ RecordsOf(markers[1]) = {1, 2}

====
